---- MODULE Spec2Model ----
(***************************************************************************)
(* Model of unredact.py: the annotation filter _remove_redaction_annots    *)
(* and the content-stream scan _remove_black_rectangles, as operations on  *)
(* one page.                                                               *)
(*                                                                         *)
(* Numbers.  Colour components and opacities are held in thousandths       *)
(* (0.9 is 900, 0.02 is 20, 1 is 1000); rectangle operands and the size    *)
(* thresholds are held in whole units.  A PDF value is a record            *)
(* [kind, val]: kind "number" is a value float() accepts, kind "name" is a *)
(* value float() raises on, kind "none" is Python's None (a key that is    *)
(* not there).  An array-like value is a record [kind, items]: "array" is  *)
(* an ArrayObject held directly, "ref" an indirect reference to one,       *)
(* "none" is None.                                                         *)
(***************************************************************************)
EXTENDS Integers, Sequences, FiniteSets, TLC

VARIABLES
    page,               \* the page: [Annots, Contents]
    annot_calls,        \* the calls of _remove_redaction_annots made so far
    pc,                 \* where _remove_black_rectangles is: idle, scan, done, raised
    args,               \* its arguments: [aggressive, min_width, min_height]
    operations,         \* content.operations (line 78)
    idx,                \* the loop index of line 94 (1-based here)
    remove_indices,     \* line 80
    path_indices,       \* line 81
    path_rects,         \* line 82
    path_has_non_rect,  \* line 83
    fill_color,         \* line 85
    color_stack,        \* line 86
    returned,           \* the value the last _remove_black_rectangles returned
    doc                 \* the document loop of main and _unredact_pdf:
                        \* [entry, pages, i, writer, at, total_removed,
                        \*  total_rect_ops]

vars == <<page, annot_calls, pc, args, operations, idx, remove_indices,
          path_indices, path_rects, path_has_non_rect, fill_color,
          color_stack, returned, doc>>

scanVars == <<pc, args, operations, idx, remove_indices, path_indices,
              path_rects, path_has_non_rect, fill_color, color_stack,
              returned>>

----------------------------------------------------------------------------
(* Bounds of the model. *)

MaxAnnots == 3
MaxAnnotCalls == 2
MaxOps == 3
MaxPages == 2

SeqsUpTo(S, n) == UNION {[1..k -> S] : k \in 0..n}

----------------------------------------------------------------------------
(* Values. *)

NoneValue == [kind |-> "none", val |-> 0]
Num(n) == [kind |-> "number", val |-> n]
NameValue == [kind |-> "name", val |-> 0]

NoneArray == [kind |-> "none", items |-> <<>>]
Array(s) == [kind |-> "array", items |-> s]
Ref(s) == [kind |-> "ref", items |-> s]

\* float(x) returns (it raises ValueError or TypeError otherwise).
Floatable(x) == x.kind = "number"

\* Python truth of an array-like value: None and an empty list are false; an
\* indirect reference is an object without __bool__ or __len__, hence true.
Truthy(a) ==
    \/ a.kind = "ref"
    \/ a.kind = "array" /\ Len(a.items) > 0

----------------------------------------------------------------------------
(* The annotation filter. *)

OpacityMin == 900

IsBlack(color) ==
    /\ color.kind # "none"
    /\ \A i \in 1..Len(color.items) :
          Floatable(color.items[i]) /\ color.items[i].val = 0

BlackBoxSubtypes == {"/Square", "/Polygon", "/Highlight", "/Ink", "/Stamp"}

\* annot.get("/IC") or annot.get("/C")
AnnotColor(annot) == IF Truthy(annot.IC) THEN annot.IC ELSE annot.C

\* annot.get("/CA", annot.get("/ca", 1))
AnnotOpacity(annot) ==
    IF annot.CA.kind # "none" THEN annot.CA
    ELSE IF annot.ca.kind # "none" THEN annot.ca
    ELSE Num(1000)

\* Lines 28-33: a float() that raises is passed over, and True is returned.
OpacityAllows(opacity) ==
    IF Floatable(opacity) THEN ~(opacity.val < OpacityMin) ELSE TRUE

LooksLikeBlackBox(annot) ==
    /\ annot.Subtype \in BlackBoxSubtypes
    /\ IsBlack(AnnotColor(annot))
    /\ OpacityAllows(AnnotOpacity(annot))

\* The loop body's decision (lines 47-53): is this annotation dropped?
Dropped(annot, aggressive) ==
    \/ annot.Subtype = "/Redact"
    \/ aggressive /\ LooksLikeBlackBox(annot)

\* A slip of line 54: the kept annotation is put at the front.
KeepAnnot_Prepends(kept, annot_ref) == <<annot_ref>> \o kept

\* kept.append(annot_ref), line 54.
KeepAnnot(kept, annot_ref) == Append(kept, annot_ref)

\* A slip of the loop: deleting from the list it walks, so that the element
\* after a deleted one is stepped over and stays.
RECURSIVE AnnotLoop_SkipsNext(_, _, _, _)
AnnotLoop_SkipsNext(annots_obj, i, aggressive, acc) ==
    IF i > Len(annots_obj) THEN acc
    ELSE IF Dropped(annots_obj[i], aggressive)
         THEN AnnotLoop_SkipsNext(annots_obj, i + 2, aggressive,
                  [acc EXCEPT !.removed = @ + 1,
                              !.kept = IF i + 1 <= Len(annots_obj)
                                       THEN Append(@, annots_obj[i + 1])
                                       ELSE @])
         ELSE AnnotLoop_SkipsNext(annots_obj, i + 1, aggressive,
                  [acc EXCEPT !.kept = Append(@, annots_obj[i])])

\* The loop of lines 45-54 from position i on; acc is [kept, removed].
RECURSIVE AnnotLoop(_, _, _, _)
AnnotLoop(annots_obj, i, aggressive, acc) ==
    IF i > Len(annots_obj) THEN acc
    ELSE IF Dropped(annots_obj[i], aggressive)
         THEN AnnotLoop(annots_obj, i + 1, aggressive,
                        [acc EXCEPT !.removed = @ + 1])
         ELSE AnnotLoop(annots_obj, i + 1, aggressive,
                        [acc EXCEPT !.kept = KeepAnnot(@, annots_obj[i])])

\* Line 38: if not annots: return 0.
ReturnsEarly(annots) == ~Truthy(annots)

\* Lines 56-59: the list attribute after the loop.
StoreKept(kept) == IF Len(kept) > 0 THEN Array(kept) ELSE NoneArray

\* _remove_redaction_annots(page, aggressive): [Annots, removed].
RemoveRedactionAnnots(annots, aggressive) ==
    IF ReturnsEarly(annots) THEN [Annots |-> annots, removed |-> 0]
    ELSE LET r == AnnotLoop(annots.items, 1, aggressive,
                            [kept |-> <<>>, removed |-> 0])
         IN  [Annots |-> StoreKept(r.kept), removed |-> r.removed]

----------------------------------------------------------------------------
(* The content-stream scan. *)

Tol == 20
DefaultFill == <<0, 0, 0>>

\* A slip of line 67: `<` for `<=`.
IsBlackColor_Strict(color) ==
    /\ Len(color) > 0
    /\ \A i \in 1..Len(color) : color[i] < Tol

\* _is_black_color(color, tol), lines 63-69; the channels are floats already.
IsBlackColor(color) ==
    /\ Len(color) > 0
    /\ \A i \in 1..Len(color) : color[i] <= Tol

PathSegmentOps == {"m", "l", "c", "v", "y", "h"}
PaintOps == {"f", "f*", "F", "B", "B*"}
EndPathOps == {"n", "W", "W*", "S", "s"}
HandledOps == {"q", "Q", "g", "rg", "re"} \cup PathSegmentOps \cup PaintOps
                  \cup EndPathOps

\* The locals of the loop, lines 80-86.
InitLocals ==
    [remove_indices |-> {}, path_indices |-> <<>>, path_rects |-> <<>>,
     path_has_non_rect |-> FALSE, fill_color |-> DefaultFill,
     color_stack |-> <<DefaultFill>>, raised |-> FALSE]

\* reset_path(), lines 88-92.
ResetPath(st) ==
    [st EXCEPT !.path_indices = <<>>, !.path_rects = <<>>,
               !.path_has_non_rect = FALSE]

\* A slip of line 96: the default colour is pushed, not the current one.
OnSave_PushesDefault(st) ==
    [st EXCEPT !.color_stack = Append(@, DefaultFill)]

\* Line 96.
OnSave(st) == [st EXCEPT !.color_stack = Append(@, st.fill_color)]

\* Line 98.
OnRestore(st) ==
    IF Len(st.color_stack) > 0
    THEN [st EXCEPT !.fill_color = st.color_stack[Len(st.color_stack)],
                    !.color_stack = SubSeq(@, 1, Len(@) - 1)]
    ELSE [st EXCEPT !.fill_color = DefaultFill]

\* Lines 100-101: operands[0] and float() are not guarded.
OnSetGray(st, operands) ==
    IF Len(operands) >= 1 /\ Floatable(operands[1])
    THEN [st EXCEPT !.fill_color =
              <<operands[1].val, operands[1].val, operands[1].val>>]
    ELSE [st EXCEPT !.raised = TRUE]

\* Line 103: operands[0..2] and float() are not guarded.
OnSetRGB(st, operands) ==
    IF Len(operands) >= 3 /\ \A i \in 1..3 : Floatable(operands[i])
    THEN [st EXCEPT !.fill_color =
              <<operands[1].val, operands[2].val, operands[3].val>>]
    ELSE [st EXCEPT !.raised = TRUE]

\* A slip of lines 109-110: a failed unpacking is passed over.
OnRect_IgnoresFailure(st, i, operands) ==
    LET st1 == [st EXCEPT !.path_indices = Append(@, i)]
    IN  IF Len(operands) = 4 /\ \A k \in 1..4 : Floatable(operands[k])
        THEN [st1 EXCEPT !.path_rects =
                  Append(@, <<operands[3].val, operands[4].val>>)]
        ELSE st1

\* Lines 105-110: the unpacking needs exactly four floats.
OnRect(st, i, operands) ==
    LET st1 == [st EXCEPT !.path_indices = Append(@, i)]
    IN  IF Len(operands) = 4 /\ \A k \in 1..4 : Floatable(operands[k])
        THEN [st1 EXCEPT !.path_rects =
                  Append(@, <<operands[3].val, operands[4].val>>)]
        ELSE [st1 EXCEPT !.path_has_non_rect = TRUE]

\* A slip of lines 112-113: the segment is recorded, the flag is not set.
OnPathSegment_NoFlag(st, i) ==
    [st EXCEPT !.path_indices = Append(@, i)]

\* Lines 112-113.
OnPathSegment(st, i) ==
    [st EXCEPT !.path_indices = Append(@, i), !.path_has_non_rect = TRUE]

\* A slip of line 122: `or` for `and`.
AnyRectLargeEnough_Either(rects, min_width, min_height) ==
    \E k \in 1..Len(rects) :
        rects[k][1] >= min_width \/ rects[k][2] >= min_height

\* Lines 121-123.
AnyRectLargeEnough(rects, min_width, min_height) ==
    \E k \in 1..Len(rects) :
        rects[k][1] >= min_width /\ rects[k][2] >= min_height

\* A slip of lines 117-123: the pure-rectangle test is made in aggressive
\* mode only.
ShouldRemove_SizeAlone(st, a) ==
    /\ IsBlackColor(st.fill_color)
    /\ \/ a.aggressive /\ ~st.path_has_non_rect
       \/ ~a.aggressive
            /\ AnyRectLargeEnough(st.path_rects, a.min_width, a.min_height)

\* Lines 116-123.
ShouldRemove(st, a) ==
    /\ ~st.path_has_non_rect
    /\ IsBlackColor(st.fill_color)
    /\ \/ a.aggressive
       \/ AnyRectLargeEnough(st.path_rects, a.min_width, a.min_height)

\* Lines 125-126.
MarkPath(st, i) ==
    [st EXCEPT !.remove_indices =
        @ \cup {st.path_indices[k] : k \in 1..Len(st.path_indices)} \cup {i}]

\* Lines 115-127.
OnPaint(st, i, a) ==
    IF Len(st.path_indices) > 0 /\ ShouldRemove(st, a)
    THEN ResetPath(MarkPath(st, i))
    ELSE ResetPath(st)

\* A slip of line 129: the terminator leaves the path in progress.
OnEndPath_Keeps(st) == st

\* Line 129.
OnEndPath(st) == ResetPath(st)

\* One iteration of the loop of line 94, on the operation at position i.
Step(st, i, op, a) ==
    CASE op.operator = "q" -> OnSave(st)
      [] op.operator = "Q" -> OnRestore(st)
      [] op.operator = "g" -> OnSetGray(st, op.operands)
      [] op.operator = "rg" -> OnSetRGB(st, op.operands)
      [] op.operator = "re" -> OnRect(st, i, op.operands)
      [] op.operator \in PathSegmentOps -> OnPathSegment(st, i)
      [] op.operator \in PaintOps -> OnPaint(st, i, a)
      [] op.operator \in EndPathOps -> OnEndPath(st)
      [] OTHER -> st

\* The whole loop from position i on; it stops where an iteration raises.
RECURSIVE RunLoop(_, _, _, _)
RunLoop(ops, i, st, a) ==
    IF i > Len(ops) \/ st.raised THEN st
    ELSE RunLoop(ops, i + 1, Step(st, i, ops[i], a), a)

\* Lines 134-136: the operations whose index is not marked, in order.
RECURSIVE FilterOps(_, _, _)
FilterOps(ops, i, marked) ==
    IF i > Len(ops) THEN <<>>
    ELSE IF i \in marked THEN FilterOps(ops, i + 1, marked)
         ELSE <<ops[i]>> \o FilterOps(ops, i + 1, marked)

NoContents == [kind |-> "none", ops |-> <<>>]
\* The page's own stream(s), as the document holds them.
Stream(ops) == [kind |-> "stream", ops |-> ops]
\* A ContentStream object stored into the page by line 137.
Rewritten(ops) == [kind |-> "content", ops |-> ops]

----------------------------------------------------------------------------
(* The inputs the model draws from. *)

Black3 == Array(<<Num(0), Num(0), Num(0)>>)
Red3 == Array(<<Num(1000), Num(0), Num(0)>>)
Malformed3 == Array(<<Num(0), NameValue, Num(0)>>)

Subtypes == {"/Redact", "/Square", "/Stamp", "/Text"}
ColorInputs == {NoneArray, Array(<<>>), Black3, Red3, Malformed3}
CAInputs == {NoneValue, Num(950), Num(900), Num(500), NameValue}
caInputs == {NoneValue, Num(950), Num(500)}

Annot(subtype, ic, c, CA, ca) ==
    [Subtype |-> subtype, IC |-> ic, C |-> c, CA |-> CA, ca |-> ca]

AllAnnots ==
    {Annot(s, ic, c, o1, o2) :
        s \in Subtypes, ic \in ColorInputs, c \in ColorInputs,
        o1 \in CAInputs, o2 \in caInputs}

RedactAnnot == Annot("/Redact", NoneArray, NoneArray, NoneValue, NoneValue)
TextAnnot == Annot("/Text", NoneArray, Red3, NoneValue, NoneValue)
LinkAnnot == Annot("/Link", NoneArray, NoneArray, NoneValue, NoneValue)
\* Scenario D: square, interior colour (0,0,0), opacity 0.95 and 0.5.
OpaqueSquare == Annot("/Square", Black3, NoneArray, Num(950), NoneValue)
FaintSquare == Annot("/Square", Black3, NoneArray, Num(500), NoneValue)

ListAnnots == {RedactAnnot, TextAnnot, LinkAnnot, OpaqueSquare, FaintSquare}

\* Annotation lists: every single annotation, and lists over ListAnnots.
AnnotLists ==
    SeqsUpTo(ListAnnots, MaxAnnots) \cup {<<a>> : a \in AllAnnots}

AnnotsInputs ==
    {NoneArray} \cup {Array(s) : s \in AnnotLists}
                \cup {Ref(s) : s \in AnnotLists}

Op(operator, operands) == [operator |-> operator, operands |-> operands]
Nums(s) == [k \in 1..Len(s) |-> Num(s[k])]

\* Scenarios A and C.
ScenarioA ==
    <<Op("q", <<>>), Op("rg", Nums(<<0, 0, 0>>)),
      Op("re", Nums(<<10, 10, 100, 50>>)), Op("f", <<>>), Op("Q", <<>>)>>
ScenarioC ==
    <<Op("q", <<>>), Op("rg", Nums(<<0, 0, 0>>)),
      Op("re", Nums(<<1, 1, 2, 2>>)), Op("f", <<>>), Op("Q", <<>>)>>

OpInputs ==
    {Op("q", <<>>), Op("Q", <<>>),
     Op("g", Nums(<<20>>)), Op("g", <<NameValue>>),
     Op("rg", Nums(<<21, 0, 0>>)), Op("rg", Nums(<<0, 0>>)),
     Op("g", <<Num(-500)>>),
     Op("k", Nums(<<0, 0, 0, 0>>)),
     Op("b", <<>>),
     Op("re", Nums(<<10, 10, 100, 50>>)), Op("re", Nums(<<1, 1, 2, 2>>)),
     Op("re", Nums(<<0, 0, 100, 2>>)),
     Op("re", <<Num(1), Num(1), NameValue, Num(50)>>),
     Op("m", Nums(<<0, 0>>)),
     Op("f", <<>>), Op("B*", <<>>),
     Op("n", <<>>),
     Op("Tj", <<NameValue>>)}

\* A black rectangle used as a clip and then filled, one stroked and then
\* filled.
StreamClipStroke ==
    <<Op("re", Nums(<<10, 10, 100, 50>>)), Op("W", <<>>), Op("f", <<>>),
      Op("re", Nums(<<10, 10, 100, 50>>)), Op("S", <<>>), Op("f", <<>>)>>

\* A rectangle closed, filled and stroked by `b`, then a small black one.
StreamCloseFillStroke ==
    <<Op("re", Nums(<<10, 10, 100, 50>>)), Op("b", <<>>),
      Op("re", Nums(<<1, 1, 2, 2>>)), Op("f", <<>>)>>
\* Black set by rg, then white set by the CMYK operator, then a rectangle.
StreamCMYKWhite ==
    <<Op("rg", Nums(<<0, 0, 0>>)), Op("k", Nums(<<0, 0, 0, 0>>)),
      Op("re", Nums(<<10, 10, 100, 50>>)), Op("f", <<>>)>>

ContentsInputs ==
    {NoContents} \cup {Stream(s) : s \in SeqsUpTo(OpInputs, MaxOps)}
                 \cup {Stream(ScenarioA), Stream(ScenarioC),
                       Stream(StreamClipStroke),
                       Stream(StreamCloseFillStroke),
                       Stream(StreamCMYKWhite)}

\* min_width, min_height: the defaults of line 72 and another pair.
Thresholds == {<<5, 5>>, <<200, 5>>}
ScanArgs ==
    {[aggressive |-> b, min_width |-> t[1], min_height |-> t[2]] :
        b \in BOOLEAN, t \in Thresholds}

----------------------------------------------------------------------------
(* The state machine. *)

Locals ==
    [remove_indices |-> remove_indices, path_indices |-> path_indices,
     path_rects |-> path_rects, path_has_non_rect |-> path_has_non_rect,
     fill_color |-> fill_color, color_stack |-> color_stack,
     raised |-> FALSE]

SetLocals(st) ==
    /\ remove_indices' = st.remove_indices
    /\ path_indices' = st.path_indices
    /\ path_rects' = st.path_rects
    /\ path_has_non_rect' = st.path_has_non_rect
    /\ fill_color' = st.fill_color
    /\ color_stack' = st.color_stack

\* No document loop: the two functions are called on one page directly.
NoDoc ==
    [entry |-> "none", pages |-> <<>>, i |-> 0, writer |-> <<>>,
     at |-> "none", total_removed |-> 0, total_rect_ops |-> 0]

ScanIdle ==
    /\ pc = "idle"
    /\ args = [aggressive |-> FALSE, min_width |-> 5, min_height |-> 5]
    /\ operations = <<>>
    /\ idx = 1
    /\ remove_indices = InitLocals.remove_indices
    /\ path_indices = InitLocals.path_indices
    /\ path_rects = InitLocals.path_rects
    /\ path_has_non_rect = InitLocals.path_has_non_rect
    /\ fill_color = InitLocals.fill_color
    /\ color_stack = InitLocals.color_stack
    /\ returned = 0

InitAnnots ==
    /\ page \in [Annots : AnnotsInputs,
                 Contents : {NoContents, Stream(ScenarioA)}]
    /\ annot_calls = <<>>
    /\ ScanIdle
    /\ doc = NoDoc

InitScan ==
    /\ page \in [Annots : {NoneArray, Array(<<RedactAnnot, TextAnnot>>)},
                 Contents : ContentsInputs]
    /\ annot_calls = <<>>
    /\ ScanIdle
    /\ doc = NoDoc

\* Pages with a few annotation lists and a few streams that between them
\* reach every branch of the loop.
SampleAnnots ==
    {NoneArray, Array(<<>>), Array(<<RedactAnnot, TextAnnot>>),
     Array(<<OpaqueSquare>>), Ref(<<TextAnnot, FaintSquare, RedactAnnot>>)}

\* Gray at the tolerance, a mixed path, a painted path, a terminator, text.
StreamMixed ==
    <<Op("g", Nums(<<20>>)), Op("m", Nums(<<0, 0>>)),
      Op("re", Nums(<<10, 10, 100, 50>>)), Op("B*", <<>>), Op("n", <<>>),
      Op("Tj", <<NameValue>>)>>
\* A removable rectangle, then a gray operator float() raises on.
StreamRaises ==
    <<Op("re", Nums(<<10, 10, 100, 50>>)), Op("f", <<>>),
      Op("g", <<NameValue>>)>>
\* Ends with a non-black fill colour, an open scope and an unpainted path.
StreamUnfinished ==
    <<Op("q", <<>>), Op("rg", Nums(<<21, 0, 0>>)),
      Op("re", Nums(<<10, 10, 100, 50>>))>>
\* A rectangle filled with the default colour.
StreamPlainFill ==
    <<Op("re", Nums(<<10, 10, 100, 50>>)), Op("f", <<>>), Op("Q", <<>>)>>

SampleContents ==
    {NoContents, Stream(ScenarioA), Stream(ScenarioC), Stream(StreamMixed),
     Stream(StreamRaises), Stream(StreamUnfinished), Stream(StreamPlainFill)}

InitPage ==
    /\ page \in [Annots : SampleAnnots, Contents : SampleContents]
    /\ annot_calls = <<>>
    /\ ScanIdle
    /\ doc = NoDoc

\* The pages a document is made of.
DocPages ==
    {[Annots |-> NoneArray, Contents |-> NoContents],
     [Annots |-> Array(<<RedactAnnot, TextAnnot>>),
      Contents |-> Stream(ScenarioA)],
     [Annots |-> Array(<<OpaqueSquare>>), Contents |-> Stream(StreamMixed)],
     [Annots |-> Array(<<>>), Contents |-> Stream(StreamRaises)],
     [Annots |-> Ref(<<TextAnnot, FaintSquare, RedactAnnot>>),
      Contents |-> Stream(StreamUnfinished)],
     [Annots |-> NoneArray, Contents |-> Stream(StreamPlainFill)],
     [Annots |-> Array(<<TextAnnot>>), Contents |-> Stream(ScenarioC)]}

\* main (unredact.py) and _unredact_pdf (app.py).
Entries == {"main", "_unredact_pdf"}

\* Both entry points call with aggressive=True and the default thresholds.
MainArgs == [aggressive |-> TRUE, min_width |-> 5, min_height |-> 5]

\* No page is bound before the loop starts.
NoPage == [Annots |-> NoneArray, Contents |-> NoContents]

\* reader = PdfReader(...), writer = PdfWriter(), the totals at 0.
InitMain ==
    /\ doc \in {[entry |-> e, pages |-> ps, i |-> 0, writer |-> <<>>,
                  at |-> "loop", total_removed |-> 0, total_rect_ops |-> 0] :
                    e \in Entries, ps \in SeqsUpTo(DocPages, MaxPages)}
    /\ page = NoPage
    /\ annot_calls = <<>>
    /\ ScanIdle

Init == InitAnnots \/ InitScan

\* A slip of line 59: the pop names the wrong key.
CallRemoveRedactionAnnots_PopsContents(aggressive) ==
    /\ pc # "scan"
    /\ Len(annot_calls) < MaxAnnotCalls
    /\ LET r == RemoveRedactionAnnots(page.Annots, aggressive)
       IN  /\ page' = IF Truthy(page.Annots) /\ r.Annots.kind = "none"
                       THEN [page EXCEPT !.Contents = NoContents]
                       ELSE [page EXCEPT !.Annots = r.Annots]
           /\ annot_calls' = Append(annot_calls,
                  [aggressive |-> aggressive, before |-> page.Annots,
                   removed |-> r.removed])
    /\ UNCHANGED <<scanVars, doc>>

\* _remove_redaction_annots(page, aggressive), lines 36-60.
CallRemoveRedactionAnnots(aggressive) ==
    /\ pc # "scan"
    /\ Len(annot_calls) < MaxAnnotCalls
    /\ LET r == RemoveRedactionAnnots(page.Annots, aggressive)
       IN  /\ page' = [page EXCEPT !.Annots = r.Annots]
           /\ annot_calls' = Append(annot_calls,
                  [aggressive |-> aggressive, before |-> page.Annots,
                   removed |-> r.removed])
    /\ UNCHANGED <<scanVars, doc>>

\* The locals as module-level state: only remove_indices is fresh per call.
ScanBegin_KeepsLocals(a) ==
    /\ pc = "idle"
    /\ args' = a
    /\ IF page.Contents.kind = "none"
       THEN /\ pc' = "done"
            /\ returned' = 0
            /\ UNCHANGED <<operations, idx, remove_indices, path_indices,
                           path_rects, path_has_non_rect, fill_color,
                           color_stack>>
       ELSE /\ pc' = "scan"
            /\ operations' = page.Contents.ops
            /\ idx' = 1
            /\ remove_indices' = {}
            /\ UNCHANGED <<path_indices, path_rects, path_has_non_rect,
                           fill_color, color_stack, returned>>
    /\ UNCHANGED <<page, annot_calls, doc>>

\* _remove_black_rectangles(page, reader, aggressive, min_width, min_height)
\* up to the loop, lines 73-92.
ScanBegin(a) ==
    /\ pc = "idle"
    /\ args' = a
    /\ IF page.Contents.kind = "none"
       THEN /\ pc' = "done"
            /\ returned' = 0
            /\ UNCHANGED <<operations, idx, remove_indices, path_indices,
                           path_rects, path_has_non_rect, fill_color,
                           color_stack>>
       ELSE /\ pc' = "scan"
            /\ operations' = page.Contents.ops
            /\ idx' = 1
            /\ SetLocals(InitLocals)
            /\ UNCHANGED returned
    /\ UNCHANGED <<page, annot_calls, doc>>

\* The loop of line 94 is at an operator of the set `tags`.
At(tags) ==
    /\ pc = "scan"
    /\ idx <= Len(operations)
    /\ operations[idx].operator \in tags

\* One iteration of the loop, lines 94-129: an iteration that raises ends the
\* call, and the exception leaves _remove_black_rectangles.
Iterate ==
    /\ LET st == Step(Locals, idx, operations[idx], args)
       IN  IF st.raised
           THEN /\ pc' = "raised"
                /\ UNCHANGED <<idx, remove_indices, path_indices, path_rects,
                               path_has_non_rect, fill_color, color_stack>>
           ELSE /\ pc' = "scan"
                /\ idx' = idx + 1
                /\ SetLocals(st)
    /\ UNCHANGED <<page, annot_calls, args, operations, returned, doc>>

OpSave ==
    /\ At({"q"})
    /\ Iterate
OpRestore ==
    /\ At({"Q"})
    /\ Iterate
OpSetGray ==
    /\ At({"g"})
    /\ Iterate
OpSetRGB ==
    /\ At({"rg"})
    /\ Iterate
OpRect ==
    /\ At({"re"})
    /\ Iterate
OpPathSegment ==
    /\ At(PathSegmentOps)
    /\ Iterate
OpPaint ==
    /\ At(PaintOps)
    /\ Iterate
OpEndPath ==
    /\ At(EndPathOps)
    /\ Iterate
OpOther ==
    /\ pc = "scan"
    /\ idx <= Len(operations)
    /\ operations[idx].operator \notin HandledOps
    /\ Iterate

\* After the loop, lines 131-138.
ScanEnd ==
    /\ pc = "scan"
    /\ idx > Len(operations)
    /\ pc' = "done"
    /\ IF remove_indices = {}
       THEN /\ returned' = 0
            /\ UNCHANGED page
       ELSE /\ page' = [page EXCEPT !.Contents =
                           Rewritten(FilterOps(operations, 1, remove_indices))]
            /\ returned' = Cardinality(remove_indices)
    /\ UNCHANGED <<annot_calls, args, operations, idx, remove_indices,
                   path_indices, path_rects, path_has_non_rect, fill_color,
                   color_stack, doc>>

\* `for page in reader.pages`: the next page is bound (main line 165,
\* _unredact_pdf line 123).
MainNextPage ==
    /\ doc.at = "loop"
    /\ doc.i < Len(doc.pages)
    /\ page' = doc.pages[doc.i + 1]
    /\ doc' = [doc EXCEPT !.i = @ + 1, !.at = "annots"]
    /\ pc' = "idle"
    /\ UNCHANGED <<annot_calls, args, operations, idx, remove_indices,
                   path_indices, path_rects, path_has_non_rect, fill_color,
                   color_stack, returned>>

\* _remove_redaction_annots(page, aggressive=True) (main line 166,
\* _unredact_pdf line 124); only main adds the count up.
MainAnnots ==
    /\ doc.at = "annots"
    /\ LET r == RemoveRedactionAnnots(page.Annots, TRUE)
       IN  /\ page' = [page EXCEPT !.Annots = r.Annots]
           /\ annot_calls' = Append(annot_calls,
                  [aggressive |-> TRUE, before |-> page.Annots,
                   removed |-> r.removed])
           /\ doc' = [doc EXCEPT
                  !.at = "rects",
                  !.total_removed =
                      IF doc.entry = "main" THEN @ + r.removed ELSE @]
    /\ UNCHANGED scanVars

\* _remove_black_rectangles(page, reader, aggressive=True) is called (main
\* lines 167-169, _unredact_pdf line 125); its iterations are the actions
\* of the loop above.
MainRects ==
    /\ doc.at = "rects"
    /\ ScanBegin(MainArgs)

\* An exception of the scan is not caught: it leaves the entry point, the
\* rest of the loop and writer.write are not executed.
MainFails ==
    /\ doc.at = "rects"
    /\ pc = "raised"
    /\ doc' = [doc EXCEPT !.at = "failed"]
    /\ UNCHANGED <<page, annot_calls, scanVars>>

\* The scan has returned: writer.add_page(page) (main line 170,
\* _unredact_pdf line 126); only main adds the count up.
MainAddPage ==
    /\ doc.at = "rects"
    /\ pc = "done"
    /\ doc' = [doc EXCEPT
           !.writer = Append(@, [no |-> doc.i, page |-> page]),
           !.at = "loop",
           !.total_rect_ops = IF doc.entry = "main" THEN @ + returned ELSE @]
    /\ UNCHANGED <<page, annot_calls, scanVars>>

\* The loop is over: writer.write(...) (main lines 172-173, _unredact_pdf
\* lines 128-129).
MainWrite ==
    /\ doc.at = "loop"
    /\ doc.i = Len(doc.pages)
    /\ doc' = [doc EXCEPT !.at = "done"]
    /\ UNCHANGED <<page, annot_calls, scanVars>>

NextAnnots == \E aggressive \in BOOLEAN : CallRemoveRedactionAnnots(aggressive)

NextScan ==
    \/ \E a \in ScanArgs : ScanBegin(a)
    \/ OpSave
    \/ OpRestore
    \/ OpSetGray
    \/ OpSetRGB
    \/ OpRect
    \/ OpPathSegment
    \/ OpPaint
    \/ OpEndPath
    \/ OpOther
    \/ ScanEnd

Next == NextAnnots \/ NextScan

NextMain ==
    \/ MainNextPage
    \/ MainAnnots
    \/ MainRects
    \/ OpSave
    \/ OpRestore
    \/ OpSetGray
    \/ OpSetRGB
    \/ OpRect
    \/ OpPathSegment
    \/ OpPaint
    \/ OpEndPath
    \/ OpOther
    \/ ScanEnd
    \/ MainFails
    \/ MainAddPage
    \/ MainWrite

SpecAnnots == InitAnnots /\ [][NextAnnots]_vars
SpecScan == InitScan /\ [][NextScan]_vars
Spec == Init /\ [][Next]_vars
\* Both functions, in any order, on one of the sample pages.
SpecPage == InitPage /\ [][Next]_vars
\* An entry point on a document of up to MaxPages pages.
SpecMain == InitMain /\ [][NextMain]_vars

----------------------------------------------------------------------------
(* Claims about the annotation filter (under SpecAnnots). *)

Called == Len(annot_calls) > 0
LastCall == annot_calls[Len(annot_calls)]
\* The annotations the page holds now.
KeptItems == page.Annots.items

\* C1: after remove_redaction_annotations returns, the page's annotation
\* list is absent or non-empty, never an empty list, whatever the input list
\* was (absent, empty or non-empty) and in either mode.
C1_NeverLeftEmpty ==
    Called => ~(page.Annots.kind # "none" /\ Len(page.Annots.items) = 0)

\* The colour or the opacity the filter reads fails numeric parsing.
ParseFails(annot) ==
    \/ \E i \in 1..Len(AnnotColor(annot).items) :
          AnnotColor(annot).items[i].kind # "number"
    \/ AnnotOpacity(annot).kind # "number"

\* C2: in aggressive mode an annotation that is not a redaction marker and
\* whose colour or opacity value fails numeric parsing is kept: a parse
\* failure never leads to its deletion.
C2_ParseFailureKeeps ==
    (Called /\ LastCall.aggressive) =>
        \A i \in 1..Len(LastCall.before.items) :
            LET annot == LastCall.before.items[i]
            IN  (annot.Subtype # "/Redact" /\ ParseFails(annot)) =>
                    \E j \in 1..Len(KeptItems) : KeptItems[j] = annot

\* The deletion rule as the specification words it.
C3_Deletes(annot, aggressive) ==
    \/ annot.Subtype = "/Redact"
    \/ /\ aggressive
       /\ annot.Subtype \in {"/Square", "/Polygon", "/Highlight", "/Ink",
                             "/Stamp"}
       /\ LET color == IF annot.IC.kind = "none" \/ Len(annot.IC.items) = 0
                       THEN annot.C ELSE annot.IC
          IN  /\ color.kind # "none"
              /\ \A i \in 1..Len(color.items) :
                    color.items[i].kind = "number" /\ color.items[i].val = 0
       /\ LET opacity == IF annot.CA.kind # "none" THEN annot.CA
                         ELSE IF annot.ca.kind # "none" THEN annot.ca
                         ELSE [kind |-> "number", val |-> 1000]
          IN  opacity.kind = "number" /\ opacity.val >= 900

\* C3: an annotation is deleted if and only if it is a redaction marker, or
\* the mode is aggressive and it is a square, polygon, highlight, ink or
\* stamp whose colour is present with every component exactly 0 and whose
\* opacity (default 1) is at least 0.9.
C3_DeletedIffRule ==
    Called =>
        LET Stays(annot) == ~C3_Deletes(annot, LastCall.aggressive)
        IN  KeptItems = SelectSeq(LastCall.before.items, Stays)

\* C8: a second run of the filter on the same page in the same mode removes
\* nothing and leaves the annotation list as it was.
C8_SecondRunIdle ==
    [][(/\ Called
        /\ Len(annot_calls') = Len(annot_calls) + 1
        /\ annot_calls'[Len(annot_calls')].aggressive = LastCall.aggressive)
       => (/\ annot_calls'[Len(annot_calls')].removed = 0
           /\ page'.Annots = page.Annots)]_vars

\* Two runs in aggressive mode, the first of which removed a marker and a
\* black box.
C8_Witness ==
    /\ Len(annot_calls) = 2
    /\ annot_calls[1].aggressive /\ annot_calls[2].aggressive
    /\ annot_calls[1].before.items = <<RedactAnnot, TextAnnot, OpaqueSquare>>
    /\ annot_calls[1].removed = 2
    /\ annot_calls[2].removed = 0

\* C10: every annotation that is not deleted is kept exactly once and in its
\* original relative order, and the count returned is the number deleted:
\* the length of the list before less the length of the list kept.
C10_KeptInOrder ==
    Called =>
        LET Stays(annot) == ~Dropped(annot, LastCall.aggressive)
        IN  /\ KeptItems = SelectSeq(LastCall.before.items, Stays)
            /\ LastCall.removed =
                   Len(LastCall.before.items) - Len(KeptItems)

\* A list whose middle element is deleted and whose two others are kept.
C10_Witness ==
    /\ Called
    /\ LastCall.before.items = <<TextAnnot, RedactAnnot, LinkAnnot>>
    /\ KeptItems = <<TextAnnot, LinkAnnot>>
    /\ LastCall.removed = 1

----------------------------------------------------------------------------
(* Claims about the content-stream scan (under SpecScan). *)

\* The loop is about to handle a fill/paint operator with a path in progress.
AtPaintWithPath ==
    /\ pc = "scan"
    /\ idx <= Len(operations)
    /\ operations[idx].operator \in {"f", "f*", "F", "B", "B*"}
    /\ Len(path_indices) > 0

\* C4: on a fill/paint operator with a path in progress the path is marked
\* if and only if it is a pure-rectangle path, the fill colour is black
\* within tolerance, and the mode is aggressive or one recorded rectangle has
\* width >= min_width and height >= min_height; a marked path adds all its
\* recorded indices and the paint operator's index to the removal set.  The
\* 100x50 black rectangle is removed with count 2 in both modes; the 2x2 one
\* is not removed in conservative mode with thresholds 5.
C4_PaintDecision ==
    /\ [][AtPaintWithPath =>
            LET black == \A k \in 1..3 : fill_color[k] <= 20
                sized == \E k \in 1..Len(path_rects) :
                            /\ path_rects[k][1] >= args.min_width
                            /\ path_rects[k][2] >= args.min_height
                marked == /\ ~path_has_non_rect
                          /\ black
                          /\ (args.aggressive \/ sized)
                path == {path_indices[k] : k \in 1..Len(path_indices)}
            IN  remove_indices' =
                    IF marked THEN remove_indices \cup path \cup {idx}
                    ELSE remove_indices]_vars
    /\ [](/\ (pc = "done" /\ operations = ScenarioA
                 /\ args.min_width = 5 /\ args.min_height = 5)
             => (returned = 2 /\ remove_indices = {3, 4})
          /\ (pc = "done" /\ operations = ScenarioC /\ ~args.aggressive
                 /\ args.min_width = 5 /\ args.min_height = 5)
             => (returned = 0 /\ remove_indices = {}))

\* Conservative mode: a path of one thin and one large rectangle is marked.
C4_Witness ==
    /\ pc = "done"
    /\ ~args.aggressive
    /\ operations = <<Op("re", Nums(<<0, 0, 100, 2>>)),
                      Op("re", Nums(<<10, 10, 100, 50>>)), Op("B*", <<>>)>>
    /\ remove_indices = {1, 2, 3}

\* C5: the pass never fails on a malformed numeric field: for every operator
\* sequence it runs to completion and returns a count; no error reaches the
\* caller.
C5_NeverRaises == pc # "raised"

\* The first index of the path that the paint operator at p ends: the one
\* after the last paint or terminator before p.
PathStart(p) ==
    LET ends == {j \in 1..(p - 1) :
                    operations[j].operator \in PaintOps \cup EndPathOps}
    IN  IF ends = {} THEN 1
        ELSE 1 + CHOOSE j \in ends : \A k \in ends : k <= j

\* C6: a path that holds a non-rectangle construction operator (m, l, c, v,
\* y, h) between its start and its paint operator is never removed, in
\* either mode: no index from its start to its paint operator is marked.
\* (Stated for every such path, black-filled or not.)
C6_NonRectNeverRemoved ==
    \A p \in 1..Len(operations) :
        (/\ p < idx
         /\ operations[p].operator \in {"f", "f*", "F", "B", "B*"}
         /\ \E j \in PathStart(p)..(p - 1) :
                operations[j].operator \in {"m", "l", "c", "v", "y", "h"})
        => \A j \in PathStart(p)..p : j \notin remove_indices

\* Aggressive mode, default black fill: a move, a large rectangle, a fill.
C6_Witness ==
    /\ pc = "done"
    /\ args.aggressive
    /\ operations = <<Op("m", Nums(<<0, 0>>)),
                      Op("re", Nums(<<10, 10, 100, 50>>)), Op("f", <<>>)>>
    /\ remove_indices = {}
    /\ returned = 0

\* The indices a whole pass removes from ops under arguments a: none when
\* the pass raises.
RemovedBy(ops, a) ==
    LET st == RunLoop(ops, 1, InitLocals, a)
    IN  IF st.raised THEN {} ELSE st.remove_indices

\* C7: for any operator sequence and any fixed thresholds, the indices
\* removed in aggressive mode are a superset of those removed in
\* conservative mode.
C7_AggressiveSuperset ==
    pc = "done" =>
        /\ ~args.aggressive =>
              remove_indices \subseteq
                  RemovedBy(operations, [args EXCEPT !.aggressive = TRUE])
        /\ args.aggressive =>
              RemovedBy(operations, [args EXCEPT !.aggressive = FALSE])
                  \subseteq remove_indices

\* An aggressive pass that removed a path the conservative pass leaves.
C7_Witness ==
    /\ pc = "done"
    /\ args.aggressive
    /\ remove_indices # {}
    /\ RemovedBy(operations, [args EXCEPT !.aggressive = FALSE]) = {}

\* The call of _remove_black_rectangles has ended.
Ended == pc \in {"done", "raised"}

\* The operations of ops outside marked, in their original order.
IsUnmarkedRest(rest, ops, marked) ==
    LET left == {i \in 1..Len(ops) : i \notin marked}
    IN  /\ Len(rest) = Cardinality(left)
        /\ \A i \in left :
              rest[Cardinality({j \in left : j <= i})] = ops[i]

\* C9: the pass writes back exactly the original operator sequence without
\* the marked indices, the others in their original order, and returns the
\* number of marked indices (the original length less the new length); with
\* no index marked it returns 0 and leaves the content stream as it was.
C9_WritesBackUnmarked ==
    Ended =>
        /\ pc = "done"
        /\ IF remove_indices = {}
           THEN /\ returned = 0
                /\ page.Contents \in {NoContents, Stream(operations)}
           ELSE /\ page.Contents.kind = "content"
                /\ IsUnmarkedRest(page.Contents.ops, operations,
                                  remove_indices)
                /\ returned = Cardinality(remove_indices)
                /\ returned = Len(operations) - Len(page.Contents.ops)

\* A paint operator is reached with a pure-rectangle path in progress that
\* the mode and the thresholds allow to be removed: only the colour decides.
AtPaintColourDecides ==
    /\ AtPaintWithPath
    /\ ~path_has_non_rect
    /\ \/ args.aggressive
       \/ AnyRectLargeEnough(path_rects, args.min_width, args.min_height)

\* The gray operator is reached with an operand float() accepts.
AtGray ==
    /\ pc = "scan"
    /\ idx <= Len(operations)
    /\ operations[idx].operator = "g"
    /\ Len(operations[idx].operands) >= 1
    /\ Floatable(operations[idx].operands[1])

GrayAsColour ==
    AtGray =>
        LET v == operations[idx].operands[1].val
        IN  fill_color' = <<v, v, v>>

\* C12, as the claim states it: a fill colour is treated as black exactly
\* when every channel is within 0.02 of zero, i.e. -0.02 <= c <= 0.02.
\* The code has no lower bound (line 67: float(c) <= tol).
C12_WithinToleranceOfZero ==
    [][/\ AtPaintColourDecides =>
            (idx \in remove_indices' <=>
                \A k \in 1..3 : fill_color[k] \in (0 - Tol)..Tol)
       /\ GrayAsColour]_vars

\* C12: the content-stream black test treats a fill colour as black exactly
\* when every channel is at most the tolerance 0.02 (a channel below zero
\* counts as black too): (0.02, 0.02, 0.02) is black, (0.021, 0, 0) is not,
\* and a gray value v set by the gray operator is the colour (v, v, v).
C12_BlackAtMostTolerance ==
    [][/\ AtPaintColourDecides =>
            (idx \in remove_indices' <=>
                /\ fill_color[1] <= 20
                /\ fill_color[2] <= 20
                /\ fill_color[3] <= 20)
       /\ (AtPaintColourDecides /\ fill_color = <<20, 20, 20>>
              => idx \in remove_indices')
       /\ (AtPaintColourDecides /\ fill_color = <<21, 0, 0>>
              => idx \notin remove_indices')
       /\ GrayAsColour]_vars

\* Gray 0.02 was set, and the rectangle painted with it has been removed.
C12_Witness ==
    /\ pc = "done"
    /\ Len(operations) = 3
    /\ operations[1] = Op("g", Nums(<<20>>))
    /\ operations[2].operator = "re"
    /\ operations[3].operator \in PaintOps
    /\ remove_indices = {2, 3}
    /\ fill_color = <<20, 20, 20>>

\* The position of the q that the Q just after position k closes, counting
\* nested pairs from the right; 0 if there is none.
RECURSIVE MatchingSave(_, _, _)
MatchingSave(ops, k, depth) ==
    IF k = 0 THEN 0
    ELSE IF ops[k].operator = "Q" THEN MatchingSave(ops, k - 1, depth + 1)
    ELSE IF ops[k].operator = "q"
         THEN IF depth = 0 THEN k ELSE MatchingSave(ops, k - 1, depth - 1)
    ELSE MatchingSave(ops, k - 1, depth)

\* The fill colour in effect when the operator at position i occurred.
ColourBefore(i) ==
    RunLoop(SubSeq(operations, 1, i - 1), 1, InitLocals, args).fill_color

\* C13: after a Q the current fill colour equals the fill colour that was in
\* effect when the matching q occurred, and after a Q that has no matching q
\* it is default black (0,0,0); a q leaves the colour as it is (the new scope
\* starts with the colour it inherited); a Q never fails, matched or not.
C13_RestoreMatchesSave ==
    /\ (pc \in {"scan", "done"} /\ idx > 1) =>
          LET last == idx - 1
              m == MatchingSave(operations, last - 1, 0)
          IN  /\ operations[last].operator = "Q" =>
                    fill_color = IF m = 0 THEN <<0, 0, 0>> ELSE ColourBefore(m)
              /\ operations[last].operator = "q" =>
                    fill_color = ColourBefore(last)
    /\ pc = "raised" => operations[idx].operator \notin {"q", "Q"}

\* A non-black colour set inside a q...Q pair has not leaked out of it.
C13_Witness ==
    /\ pc = "done"
    /\ Len(operations) = 3
    /\ operations[1].operator = "q"
    /\ operations[2] = Op("rg", Nums(<<21, 0, 0>>))
    /\ operations[3].operator = "Q"
    /\ MatchingSave(operations, 2, 0) = 1
    /\ fill_color = DefaultFill
    /\ color_stack = <<DefaultFill>>

\* C14: a clip/no-paint terminator (n, W, W*, S, s) resets the path without
\* removal: no operator from the start of its path up to the terminator is
\* ever in the removal set, whatever follows (a later fill included), and
\* the terminator itself is never removed.
C14_TerminatorNeverRemoves ==
    \A t \in 1..Len(operations) :
        (/\ pc \in {"scan", "done", "raised"}
         /\ operations[t].operator \in {"n", "W", "W*", "S", "s"})
        => \A j \in PathStart(t)..t : j \notin remove_indices

\* A black 100x50 rectangle was ended by a terminator and a fill followed:
\* aggressive mode has removed nothing.
C14_Witness ==
    /\ pc = "done"
    /\ args.aggressive
    /\ Len(operations) = 3
    /\ operations[1] = Op("re", Nums(<<10, 10, 100, 50>>))
    /\ operations[2].operator \in EndPathOps
    /\ operations[3].operator \in PaintOps
    /\ fill_color = DefaultFill
    /\ remove_indices = {}
    /\ returned = 0

\* A rectangle operator with four numeric operands.
IsWellFormedRect(op) ==
    /\ op.operator = "re"
    /\ Len(op.operands) = 4
    /\ \A k \in 1..4 : op.operands[k].kind = "number"

IsScopeOrColourOp(op) == op.operator \in {"q", "Q", "g", "rg"}

\* C17: every index in the removal set is a rectangle operator (re) with
\* four numeric operands or a fill/paint operator (f, f*, F, B, B*); scope
\* operators (q, Q), fill-colour operators (g, rg) and unrecognised operators
\* are never removed, so the q, Q, g and rg operators of the stream written
\* back are those of the input stream, in the same order.
C17_OnlyRectsAndPaints ==
    /\ \A i \in remove_indices :
          \/ IsWellFormedRect(operations[i])
          \/ operations[i].operator \in {"f", "f*", "F", "B", "B*"}
    /\ \A i \in 1..Len(operations) :
          (\/ IsScopeOrColourOp(operations[i])
           \/ operations[i].operator \notin
                 {"q", "Q", "g", "rg", "re", "m", "l", "c", "v", "y", "h",
                  "f", "f*", "F", "B", "B*", "n", "W", "W*", "S", "s"})
          => i \notin remove_indices
    /\ pc = "done" =>
          SelectSeq(page.Contents.ops, IsScopeOrColourOp)
              = SelectSeq(operations, IsScopeOrColourOp)

\* Scenario A in aggressive mode: the rectangle and its fill are gone, the
\* q, rg and Q around them are written back.
C17_Witness ==
    /\ pc = "done"
    /\ operations = ScenarioA
    /\ remove_indices = {3, 4}
    /\ page.Contents =
          Rewritten(<<Op("q", <<>>), Op("rg", Nums(<<0, 0, 0>>)),
                      Op("Q", <<>>)>>)

\* The paint operator that caused the removal of the operator at i: the
\* first fill/paint operator of the loop after i.
RemovingPaint(i) ==
    CHOOSE p \in (i + 1)..Len(operations) :
        /\ operations[p].operator \in PaintOps
        /\ \A j \in (i + 1)..(p - 1) : operations[j].operator \notin PaintOps

\* C18: between a removed re and the removed paint operator that caused its
\* removal there is no other path-painting or path-ending operator (f, f*,
\* F, B, B*, b, b*, S, s, n): a path already painted or ended by an earlier
\* operator is never deleted because of a later black fill.
C18_NoPaintInBetween ==
    \A i \in remove_indices :
        operations[i].operator = "re" =>
            \A j \in (i + 1)..(RemovingPaint(i) - 1) :
                operations[j].operator \notin
                    {"f", "f*", "F", "B", "B*", "b", "b*", "S", "s", "n"}

\* The RGB colour a CMYK operand quadruple paints, in thousandths.
FromCMYK(operands) ==
    LET c == operands[1].val
        m == operands[2].val
        y == operands[3].val
        k == operands[4].val
    IN  <<((1000 - c) * (1000 - k)) \div 1000,
          ((1000 - m) * (1000 - k)) \div 1000,
          ((1000 - y) * (1000 - k)) \div 1000>>

\* The loop's colour tracking with the CMYK fill operator k taken into
\* account as well.
ActualStep(st, i, op, a) ==
    IF op.operator = "k" /\ Len(op.operands) = 4
         /\ \A n \in 1..4 : Floatable(op.operands[n])
    THEN [st EXCEPT !.fill_color = FromCMYK(op.operands)]
    ELSE Step(st, i, op, a)

RECURSIVE ActualRun(_, _, _, _)
ActualRun(ops, i, st, a) ==
    IF i > Len(ops) \/ st.raised THEN st
    ELSE ActualRun(ops, i + 1, ActualStep(st, i, ops[i], a), a)

\* The fill colour in effect at the operator at position p.
ActualFillAt(p) ==
    ActualRun(SubSeq(operations, 1, p - 1), 1, InitLocals, args).fill_color

\* C19: a path is removed only if the fill colour actually in effect at its
\* paint operator is black, the colour in effect being the one set by the
\* most recent non-stroking colour operator in the current scope, operators
\* other than g and rg (here k) included.
C19_RemovedOnlyIfBlackInEffect ==
    \A p \in remove_indices :
        operations[p].operator \in PaintOps =>
            \A n \in 1..3 : ActualFillAt(p)[n] <= Tol

----------------------------------------------------------------------------
(* Claims about the two functions on one page (under SpecPage). *)

\* C11: the annotation filter never changes the page's content-stream
\* operator sequence, and the content-stream pass never changes the page's
\* annotation list, for any page and either mode.
C11_Disjoint ==
    [][IF Len(annot_calls') > Len(annot_calls)
       THEN page'.Contents = page.Contents
       ELSE page'.Annots = page.Annots]_vars

\* Both have run and each has changed its own structure.
C11_Witness ==
    /\ Len(annot_calls) > 0
    /\ annot_calls[1].removed > 0
    /\ page.Annots # annot_calls[1].before
    /\ pc = "done"
    /\ returned > 0
    /\ page.Contents.kind = "content"

----------------------------------------------------------------------------
(* Claims about the document loop (under SpecMain). *)

\* What a page holds after both functions have returned (aggressive mode).
Processed(p) ==
    LET st == RunLoop(p.Contents.ops, 1, InitLocals, MainArgs)
    IN  [Annots |-> RemoveRedactionAnnots(p.Annots, TRUE).Annots,
         Contents |-> IF p.Contents.kind = "none" \/ st.remove_indices = {}
                      THEN p.Contents
                      ELSE Rewritten(FilterOps(p.Contents.ops, 1,
                                               st.remove_indices))]

\* The order of the steps: the writer holds the pages before the current
\* one, each once and in document order, each as both functions left it;
\* the scan of a page runs only after the annotation filter has returned
\* for that page, and a page is bound only after the one before it was
\* handed to the writer.
InDocumentOrder ==
    /\ \A k \in 1..Len(doc.writer) :
          /\ doc.writer[k].no = k
          /\ doc.writer[k].page = Processed(doc.pages[k])
    /\ Len(doc.writer) =
          IF doc.at \in {"annots", "rects", "failed"} THEN doc.i - 1
          ELSE doc.i
    /\ Len(annot_calls) = IF doc.at = "annots" THEN doc.i - 1 ELSE doc.i
    /\ doc.at = "annots" => pc = "idle"
    /\ doc.at = "loop" => pc \in {"idle", "done"}
    /\ doc.at = "rects" /\ pc # "idle" =>
          /\ page.Annots = Processed(doc.pages[doc.i]).Annots
          /\ \A k \in 1..doc.i :
                annot_calls[k].before = doc.pages[k].Annots

\* The entry point has stopped.
MainEnded == doc.at \in {"done", "failed"}

\* C15: in both entry points the pages are processed one at a time in
\* document order, the annotation filter returns before the scan of the page
\* starts, both return before the page is handed to the writer and before
\* the next page begins, and the writer receives every page exactly once in
\* the original order.
C15_EveryPageInOrder ==
    /\ InDocumentOrder
    /\ MainEnded =>
          /\ doc.at = "done"
          /\ Len(doc.writer) = Len(doc.pages)

\* The part of C15 that every run satisfies: the order of the steps, and the
\* writer holding every page once the entry point has written the document.
C15_OrderAndWrittenComplete ==
    /\ InDocumentOrder
    /\ doc.at = "done" => Len(doc.writer) = Len(doc.pages)

\* A document of two different pages has been written.
C15_WrittenWitness ==
    /\ doc.at = "done"
    /\ Len(doc.pages) = 2
    /\ doc.pages[1] # doc.pages[2]
    /\ doc.writer[1].page # doc.pages[1]
    /\ doc.writer[2].page # doc.pages[2]

\* C16: no scan state crosses a page boundary.  Each page's pass starts with
\* fill colour default black, a fresh colour stack and an empty path record,
\* and at every point of the pass the locals are what the loop computes from
\* this page's own operators and the mode alone, so the indices removed, the
\* count returned and the stream written back do not depend on the pages
\* processed before.
C16_NoStateAcrossPages ==
    (/\ doc.i > 0
     /\ doc.at = "rects"
     /\ pc # "idle"
     /\ doc.pages[doc.i].Contents.kind # "none")
    => LET ops == doc.pages[doc.i].Contents.ops
           st == RunLoop(SubSeq(ops, 1, idx - 1), 1, InitLocals, MainArgs)
       IN  /\ operations = ops
           /\ idx = 1 =>
                 /\ fill_color = <<0, 0, 0>>
                 /\ color_stack = <<<<0, 0, 0>>>>
                 /\ path_indices = <<>>
                 /\ path_rects = <<>>
                 /\ ~path_has_non_rect
                 /\ remove_indices = {}
           /\ Locals = st
           /\ pc = "done" =>
                 /\ remove_indices = RemovedBy(ops, MainArgs)
                 /\ returned = Cardinality(RemovedBy(ops, MainArgs))
                 /\ page.Contents = Processed(doc.pages[doc.i]).Contents

\* The first page ended with a non-black colour, an open scope and an
\* unpainted rectangle; the rectangle of the second page has been removed.
C16_Witness ==
    /\ doc.i = 2
    /\ doc.at = "rects"
    /\ pc = "done"
    /\ doc.pages[1].Contents = Stream(StreamUnfinished)
    /\ doc.pages[2].Contents = Stream(StreamPlainFill)
    /\ remove_indices = {1, 2}
    /\ returned = 2

====
